---- MODULE Spec2Model ----
(***************************************************************************)
(* Keyset-cursor pagination with windowed prefetch, as implemented by the  *)
(* Vue component frontend/src/App.vue.                                     *)
(*                                                                         *)
(* The component runs on the single-threaded JavaScript event loop: every  *)
(* handler runs without interruption from its entry (or from the           *)
(* resumption of an await on a gateway call) up to its next await on a     *)
(* gateway call.  Each such stretch is one action here.  An await on an    *)
(* async function that returns without calling the gateway only defers to  *)
(* the microtask queue, which is drained before any other event is         *)
(* handled, so it does not end the stretch.                                *)
(*                                                                         *)
(* The ranking backend is outside the component; it is modelled by its     *)
(* contract (Gateway): a static ranked stream per (query, lang), resumed   *)
(* strictly after the cursor.                                              *)
(***************************************************************************)
EXTENDS Integers, Sequences, FiniteSets, TLC

VARIABLES
    docsCount,        \* environment: number of documents the backend holds
    query,            \* data().query
    lang,             \* data().lang
    pageSize,         \* data().pageSize
    loading,          \* data().loading
    prefetching,      \* data().prefetching
    error,            \* data().error
    results,          \* data().results
    meta,             \* data().meta (FALSE = null)
    currentPage,      \* data().currentPage
    windowStart,      \* data().windowStart
    windowEnd,        \* data().windowEnd
    pageCache,        \* data().pageCache
    pageEndCursor,    \* data().pageEndCursor
    noMoreAfterPage,  \* data().noMoreAfterPage (0 = null)
    inflight,         \* gateway calls awaiting their response, one per suspended handler
    nOps,             \* number of user operations so far
    edits,            \* number of edits of query, lang or pageSize so far
    submits,          \* number of clicks on Search so far
    session,          \* history: number of resetPaginationState calls so far
    dirty,            \* history: an input was edited since the last reset
    stale,            \* history: since the last reset, a response was handled whose
                      \*   request had been issued before that reset
    refilled,         \* history: a refill has succeeded since the last reset
    windowOp          \* history: the user operation whose refill last set the
                      \*   window since the last reset (0 = none)

vars == <<docsCount, query, lang, pageSize, loading, prefetching, error, results,
          meta, currentPage, windowStart, windowEnd, pageCache, pageEndCursor,
          noMoreAfterPage, inflight, nOps, edits, submits, session, dirty,
          stale, refilled, windowOp>>

----------------------------------------------------------------------------
(* Bounds of the model *)

MaxDocs == 28
MaxOps == 5
MaxEdits == 1
MaxSubmits == 1

(* Program constants *)

WindowPages == 5
PageSizeOptions == {5, 10, 20}
DefaultPageSize == 10
Langs == {"", "en"}
DefaultLang == "en"
DefaultQuery == "live indexing bm25"
Queries == {"", DefaultQuery}

NoPage == 0
NullCursor == [isNull |-> TRUE]
SearchFailed == "Search failed"

----------------------------------------------------------------------------
(* Arithmetic helpers *)

Min(a, b) == IF a < b THEN a ELSE b
Max(a, b) == IF a > b THEN a ELSE b
Ceil(a, b) == (a + b - 1) \div b

(* Array.prototype.slice(from, to) on a 0-based array held as a sequence *)
Slice(items, from, to) == SubSeq(items, from + 1, Min(to, Len(items)))

----------------------------------------------------------------------------
(* The ranked stream and the gateway contract.  A result item is held as   *)
(* its rank in the backend's full ranking; its fields are functions of     *)
(* that rank.  Scores come in tied pairs, so the doc_id tie-break decides. *)

Score(i) == MaxDocs + 1 - ((i + 1) \div 2)
DocId(i) == IF i % 2 = 1 THEN MaxDocs + 1 - i ELSE MaxDocs + 3 - i
Lang(i) == IF i = 1 THEN "fr" ELSE "en"

Matches(q, l, i) == q # "" /\ (l = "" \/ Lang(i) = l)

(* Which documents the backend holds is the environment's choice.  Streams  *)
(* whose lengths fall between the same multiples of the smallest page size *)
(* slice alike under every page size, so one length of each such class is  *)
(* taken for the default stream: at the multiple, and two past it.         *)
DocCounts == {n \in 1..MaxDocs : (n - 1) % 5 \in {0, 2}}

Stream(q, l) == SelectSeq([i \in 1..docsCount |-> i], LAMBDA i : Matches(q, l, i))

(* item i strictly follows the cursor: score descending, doc_id ascending *)
Follows(i, cursor) ==
    \/ cursor = NullCursor
    \/ /\ cursor # NullCursor
       /\ \/ Score(i) < cursor.lastscore
          \/ Score(i) = cursor.lastscore /\ DocId(i) > cursor.lastid

Gateway(payload) ==
    LET rest == SelectSeq(Stream(payload.query, payload.lang),
                          LAMBDA i : Follows(i, payload.cursor))
    IN  SubSeq(rest, 1, Min(payload.size, Len(rest)))

----------------------------------------------------------------------------
(* The component's state as one value, so that the synchronous stretches   *)
(* of the handlers compose as functions on it.                             *)

St == [query |-> query, lang |-> lang, pageSize |-> pageSize, loading |-> loading,
       prefetching |-> prefetching, error |-> error, results |-> results,
       meta |-> meta, currentPage |-> currentPage, windowStart |-> windowStart,
       windowEnd |-> windowEnd, pageCache |-> pageCache,
       pageEndCursor |-> pageEndCursor, noMoreAfterPage |-> noMoreAfterPage,
       inflight |-> inflight, session |-> session, dirty |-> dirty,
       stale |-> stale, refilled |-> refilled, windowOp |-> windowOp]

Becomes(S) ==
    /\ query' = S.query
    /\ lang' = S.lang
    /\ pageSize' = S.pageSize
    /\ loading' = S.loading
    /\ prefetching' = S.prefetching
    /\ error' = S.error
    /\ results' = S.results
    /\ meta' = S.meta
    /\ currentPage' = S.currentPage
    /\ windowStart' = S.windowStart
    /\ windowEnd' = S.windowEnd
    /\ pageCache' = S.pageCache
    /\ pageEndCursor' = S.pageEndCursor
    /\ noMoreAfterPage' = S.noMoreAfterPage
    /\ inflight' = S.inflight
    /\ session' = S.session
    /\ dirty' = S.dirty
    /\ stale' = S.stale
    /\ refilled' = S.refilled
    /\ windowOp' = S.windowOp

(* pageCache[p] / pageEndCursor[p] as JavaScript reads them *)
HasPage(S, p) == p \in DOMAIN S.pageCache
HasCursor(S, p) == p \in DOMAIN S.pageEndCursor /\ S.pageEndCursor[p] # NullCursor

buildPayload(S, size, cursor) ==
    [query |-> S.query, size |-> size, cursor |-> cursor, lang |-> S.lang]

getEndCursorFromResults(items) ==
    IF Len(items) = 0 THEN NullCursor
    ELSE [lastscore |-> Score(items[Len(items)]), lastid |-> DocId(items[Len(items)])]

(* callSearchApi up to its await: the request leaves with the payload built now. *)
(* intact is history: the handler awaiting this call has so far left the    *)
(* pagination fields as it found them when it was called.                   *)
callSearchApi(S, op, kind, page, size, cursor) ==
    [S EXCEPT !.inflight = @ \cup
        {[op |-> op, kind |-> kind, page |-> page,
          payload |-> buildPayload(S, size, cursor),
          session |-> S.session, reqPageSize |-> S.pageSize,
          intact |-> TRUE]}]

(* the pagination fields of the component *)
Pagination(S) ==
    <<S.currentPage, S.results, S.pageCache, S.pageEndCursor, S.windowStart,
      S.windowEnd, S.noMoreAfterPage>>

(* history: handler op has taken the component from S0 to S before its await *)
Since(S, op, S0) ==
    [S EXCEPT !.inflight =
        {IF u.op = op THEN [u EXCEPT !.intact = @ /\ Pagination(S) = Pagination(S0)]
                      ELSE u : u \in @}]

resetPaginationState(S) ==
    [S EXCEPT !.currentPage = 1, !.windowStart = 1, !.windowEnd = 1,
              !.pageCache = <<>>, !.pageEndCursor = <<>>,
              !.noMoreAfterPage = NoPage,
              !.session = @ + 1, !.dirty = FALSE, !.stale = FALSE,
              !.refilled = FALSE, !.windowOp = 0]

----------------------------------------------------------------------------
(* ensureCursorForPageEnd(pageNum) *)

(* it returns without calling the gateway *)
ensureCursorNoFetch(S, pageNum) == pageNum <= 0 \/ HasCursor(S, pageNum)

ensureCursorForgotten(S, pageNum) == NullCursor

(* ... with this value *)
ensureCursorCachedValue(S, pageNum) ==
    IF pageNum <= 0 THEN NullCursor ELSE S.pageEndCursor[pageNum]

(* after the backfill response: fill what is missing for every derived page *)
ensureCursorFill(S, items) ==
    LET pages == Ceil(Len(items), S.pageSize)
        slice(p) == Slice(items, (p - 1) * S.pageSize, p * S.pageSize)
        derived == {p \in 1..pages : Len(slice(p)) > 0}
    IN  [S EXCEPT
          !.pageCache =
              [p \in DOMAIN S.pageCache \cup derived |->
                  IF HasPage(S, p) THEN S.pageCache[p] ELSE slice(p)],
          !.pageEndCursor =
              [p \in DOMAIN S.pageEndCursor \cup derived |->
                  IF p \in derived /\ ~HasCursor(S, p)
                  THEN getEndCursorFromResults(slice(p))
                  ELSE S.pageEndCursor[p]]]

(* return this.pageEndCursor[pageNum] || null *)
ensureCursorResult(S, pageNum) ==
    IF HasCursor(S, pageNum) THEN S.pageEndCursor[pageNum] ELSE NullCursor

----------------------------------------------------------------------------
(* prefetchWindow(centerPage) *)

prefetchStart(centerPage) == Max(1, centerPage - 2)

(* from "this.prefetching = true" to the await on the bulk fetch *)
prefetchFetch(S, op, start, cursor) ==
    callSearchApi([S EXCEPT !.prefetching = TRUE], op, "refill", start,
                  S.pageSize * WindowPages, cursor)

(* from the call to the first await on a gateway call *)
prefetchWindow(S, op, centerPage) ==
    LET start == prefetchStart(centerPage)
    IN  IF start = 1 THEN prefetchFetch(S, op, start, NullCursor)
        ELSE IF ensureCursorNoFetch(S, start - 1)
        THEN prefetchFetch(S, op, start, ensureCursorCachedValue(S, start - 1))
        ELSE callSearchApi(S, op, "refillBackfill", start,
                           (start - 1) * S.pageSize, NullCursor)

(* the backfill of the entry cursor answered *)
prefetchAfterBackfill(S, op, start, items) ==
    LET S1 == ensureCursorFill(S, items)
    IN  prefetchFetch(S1, op, start, ensureCursorResult(S1, start - 1))

(* Math.min(5, pagesInBlock || 1) *)
maxPagesUncapped(pagesInBlock) == IF pagesInBlock = 0 THEN 1 ELSE pagesInBlock

maxPagesFull(pagesInBlock) == WindowPages

maxPagesToShowOf(pagesInBlock) ==
    Min(WindowPages, IF pagesInBlock = 0 THEN 1 ELSE pagesInBlock)

prefetchApplyFirstPage(S, start, items) ==
    LET pagesInBlock == Ceil(Len(items), S.pageSize)
        maxPagesToShow == maxPagesToShowOf(pagesInBlock)
        first == Slice(items, 0, S.pageSize)
        written == IF Len(first) > 0 THEN {start} ELSE {}
        wEnd == start + maxPagesToShow - 1
    IN  [S EXCEPT
          !.pageCache = [p \in DOMAIN S.pageCache \cup written |->
                            IF p \in written THEN first ELSE S.pageCache[p]],
          !.pageEndCursor = [p \in DOMAIN S.pageEndCursor \cup written |->
                                IF p \in written THEN getEndCursorFromResults(first)
                                ELSE S.pageEndCursor[p]],
          !.windowStart = start,
          !.windowEnd = wEnd,
          !.prefetching = FALSE,
          !.refilled = TRUE]

(* the bulk fetch answered: slice, cache, place the window, detect the end *)
prefetchApply(S, start, items) ==
    LET pagesInBlock == Ceil(Len(items), S.pageSize)
        maxPagesToShow == maxPagesToShowOf(pagesInBlock)
        slice(i) == Slice(items, i * S.pageSize, (i + 1) * S.pageSize)
        written == {start + i : i \in {j \in 0..(maxPagesToShow - 1) : Len(slice(j)) > 0}}
        cache == [p \in DOMAIN S.pageCache \cup written |->
                     IF p \in written THEN slice(p - start) ELSE S.pageCache[p]]
        cursors == [p \in DOMAIN S.pageEndCursor \cup written |->
                     IF p \in written THEN getEndCursorFromResults(slice(p - start))
                     ELSE S.pageEndCursor[p]]
        wEnd == start + maxPagesToShow - 1
        lastPageSlice == IF wEnd \in DOMAIN cache THEN cache[wEnd] ELSE <<>>
    IN  [S EXCEPT
          !.pageCache = cache,
          !.pageEndCursor = cursors,
          !.windowStart = start,
          !.windowEnd = wEnd,
          !.noMoreAfterPage =
              IF maxPagesToShow < WindowPages \/ Len(lastPageSlice) < S.pageSize
              THEN wEnd ELSE @,
          !.prefetching = FALSE,
          !.refilled = TRUE]

prefetchFailedRollback(S) ==
    [S EXCEPT !.error = IF @ # "" THEN @ ELSE SearchFailed, !.prefetching = FALSE,
              !.windowStart = 1, !.windowEnd = 1]

(* the bulk fetch failed: catch + finally *)
prefetchFailed(S) ==
    [S EXCEPT !.error = IF @ # "" THEN @ ELSE SearchFailed, !.prefetching = FALSE]

----------------------------------------------------------------------------
(* doSearch() *)

doSearch(S, op) ==
    IF S.query = "" THEN S
    ELSE Since(callSearchApi(
                  resetPaginationState(
                      [S EXCEPT !.error = "", !.loading = TRUE, !.prefetching = FALSE,
                                !.results = <<>>, !.meta = FALSE]),
                  op, "search", 1, S.pageSize, NullCursor),
               op, S)

doSearchAnswered(S, op, page1) ==
    LET S1 == [S EXCEPT !.pageCache = (1 :> page1) @@ @,
                        !.pageEndCursor = (1 :> getEndCursorFromResults(page1)) @@ @,
                        !.results = page1,
                        !.meta = TRUE]
    IN  [prefetchWindow(S1, op, S1.currentPage) EXCEPT !.loading = FALSE]

doSearchFailed(S) == [S EXCEPT !.error = SearchFailed, !.loading = FALSE]

----------------------------------------------------------------------------
(* goToPage(p) *)

goToPageFetch(S, op, p, cursor) ==
    callSearchApi(S, op, "navFetch", p, S.pageSize, cursor)

goToPageDeferred(S, op, p) ==
    IF p < 1 THEN S
    ELSE IF S.noMoreAfterPage # NoPage /\ p > S.noMoreAfterPage THEN S
    ELSE IF HasPage(S, p)
    THEN prefetchWindow(S, op, p)
    ELSE LET S1 == [S EXCEPT !.loading = TRUE]
         IN  IF p = 1 THEN goToPageFetch(S1, op, p, NullCursor)
             ELSE IF ensureCursorNoFetch(S1, p - 1)
             THEN goToPageFetch(S1, op, p, ensureCursorCachedValue(S1, p - 1))
             ELSE callSearchApi(S1, op, "navBackfill", p, (p - 1) * S1.pageSize, NullCursor)

goToPageUnguarded(S, op, p) ==
    IF p < 1 THEN S
    ELSE IF HasPage(S, p)
    THEN prefetchWindow([S EXCEPT !.currentPage = p, !.results = S.pageCache[p]], op, p)
    ELSE LET S1 == [S EXCEPT !.loading = TRUE]
         IN  IF p = 1 THEN goToPageFetch(S1, op, p, NullCursor)
             ELSE IF ensureCursorNoFetch(S1, p - 1)
             THEN goToPageFetch(S1, op, p, ensureCursorCachedValue(S1, p - 1))
             ELSE callSearchApi(S1, op, "navBackfill", p, (p - 1) * S1.pageSize, NullCursor)

goToPage(S, op, p) ==
    IF p < 1 THEN S
    ELSE IF S.noMoreAfterPage # NoPage /\ p > S.noMoreAfterPage THEN S
    ELSE IF HasPage(S, p)
    THEN prefetchWindow([S EXCEPT !.currentPage = p, !.results = S.pageCache[p]], op, p)
    ELSE LET S1 == [S EXCEPT !.loading = TRUE]
         IN  IF p = 1 THEN goToPageFetch(S1, op, p, NullCursor)
             ELSE IF ensureCursorNoFetch(S1, p - 1)
             THEN goToPageFetch(S1, op, p, ensureCursorCachedValue(S1, p - 1))
             ELSE callSearchApi(S1, op, "navBackfill", p, (p - 1) * S1.pageSize, NullCursor)

goToPageAfterBackfill(S, op, p, items) ==
    LET S1 == ensureCursorFill(S, items)
    IN  Since(goToPageFetch(S1, op, p, ensureCursorResult(S1, p - 1)), op, S)

goToPageAnsweredAppending(S, op, p, items) ==
    LET S1 == [S EXCEPT !.pageCache =
                            (p :> (IF HasPage(S, p) THEN S.pageCache[p] ELSE <<>>) \o items) @@ @,
                        !.pageEndCursor = (p :> getEndCursorFromResults(items)) @@ @,
                        !.currentPage = p,
                        !.results = items,
                        !.loading = FALSE]
    IN  prefetchWindow(S1, op, S1.currentPage)

goToPageAnswered(S, op, p, items) ==
    LET S1 == [S EXCEPT !.pageCache = (p :> items) @@ @,
                        !.pageEndCursor = (p :> getEndCursorFromResults(items)) @@ @,
                        !.currentPage = p,
                        !.results = items,
                        !.loading = FALSE]
    IN  prefetchWindow(S1, op, S1.currentPage)

goToPageFailed(S, op) ==
    LET S1 == [S EXCEPT !.error = SearchFailed, !.loading = FALSE]
    IN  prefetchWindow(S1, op, S1.currentPage)

----------------------------------------------------------------------------
(* What the template offers *)

paginationReady == meta /\ (windowEnd - windowStart + 1) >= 1

pageNumbers == windowStart..windowEnd

canGoNextCachedOnly ==
    IF noMoreAfterPage # NoPage THEN currentPage < noMoreAfterPage
    ELSE (currentPage + 1) \in DOMAIN pageCache

canGoNext ==
    IF noMoreAfterPage # NoPage THEN currentPage < noMoreAfterPage
    ELSE (currentPage + 1) \in DOMAIN pageCache
         \/ (windowEnd - windowStart + 1) = WindowPages

(* the pages a click can pass to goToPage: Prev, the page buttons, Next *)
NavTargets ==
    IF ~paginationReady THEN {}
    ELSE pageNumbers
         \cup (IF currentPage <= 1 THEN {} ELSE {currentPage - 1})
         \cup (IF canGoNext THEN {currentPage + 1} ELSE {})

----------------------------------------------------------------------------
(* Actions *)

Init ==
    /\ docsCount \in DocCounts
    /\ query = DefaultQuery
    /\ lang = DefaultLang
    /\ pageSize = DefaultPageSize
    /\ loading = FALSE
    /\ prefetching = FALSE
    /\ error = ""
    /\ results = <<>>
    /\ meta = FALSE
    /\ currentPage = 1
    /\ windowStart = 1
    /\ windowEnd = 1
    /\ pageCache = <<>>
    /\ pageEndCursor = <<>>
    /\ noMoreAfterPage = NoPage
    /\ inflight = {}
    /\ nOps = 0
    /\ edits = 0
    /\ submits = 0
    /\ session = 0
    /\ dirty = FALSE
    /\ stale = FALSE
    /\ refilled = FALSE
    /\ windowOp = 0

UserOp(S) ==
    /\ nOps < MaxOps
    /\ nOps' = nOps + 1
    /\ Becomes(S)
    /\ UNCHANGED docsCount

Click(S) == UserOp(S) /\ UNCHANGED <<edits, submits>>

Edit(S) == edits < MaxEdits /\ edits' = edits + 1 /\ UserOp(S) /\ UNCHANGED submits

(* the Search button: disabled while loading or with a blank query *)
Submit ==
    /\ ~loading
    /\ query # ""
    /\ submits < MaxSubmits
    /\ submits' = submits + 1
    /\ UserOp(doSearch(St, nOps + 1))
    /\ UNCHANGED edits

(* the page-size select, and the watcher that restarts the search *)
SetPageSize(size) ==
    /\ size # pageSize
    /\ Edit(doSearch([St EXCEPT !.pageSize = size, !.dirty = TRUE], nOps + 1))

SetQuery(q) ==
    /\ q # query
    /\ Edit([St EXCEPT !.query = q, !.dirty = TRUE])

SetLang(l) ==
    /\ l # lang
    /\ Edit([St EXCEPT !.lang = l, !.dirty = TRUE])

GoToPage(p) ==
    /\ p \in NavTargets
    /\ Click(goToPage(St, nOps + 1, p))

(* the handler suspended on t resumes *)
Without(t) == [St EXCEPT !.inflight = @ \ {t}, !.stale = @ \/ t.session # session]

Answer(S) == Becomes(S) /\ UNCHANGED <<docsCount, nOps, edits, submits>>

SearchAnswered(t) ==
    /\ t.kind = "search"
    /\ Answer(doSearchAnswered(Without(t), t.op, Gateway(t.payload)))

SearchFailedResponse(t) ==
    /\ t.kind = "search"
    /\ Answer(doSearchFailed(Without(t)))

NavBackfillAnswered(t) ==
    /\ t.kind = "navBackfill"
    /\ Answer(goToPageAfterBackfill(Without(t), t.op, t.page, Gateway(t.payload)))

NavFetchAnswered(t) ==
    /\ t.kind = "navFetch"
    /\ Answer(goToPageAnswered(Without(t), t.op, t.page, Gateway(t.payload)))

NavFailed(t) ==
    /\ t.kind \in {"navBackfill", "navFetch"}
    /\ Answer(goToPageFailed(Without(t), t.op))

RefillBackfillAnswered(t) ==
    /\ t.kind = "refillBackfill"
    /\ Answer(prefetchAfterBackfill(Without(t), t.op, t.page, Gateway(t.payload)))

(* the rejection leaves prefetchWindow before its try block *)
RefillBackfillFailed(t) ==
    /\ t.kind = "refillBackfill"
    /\ Answer(Without(t))

RefillAnswered(t) ==
    /\ t.kind = "refill"
    /\ Answer([prefetchApply(Without(t), t.page, Gateway(t.payload))
                  EXCEPT !.windowOp = t.op])

RefillFailed(t) ==
    /\ t.kind = "refill"
    /\ Answer(prefetchFailed(Without(t)))

Navigate == \E p \in NavTargets : GoToPage(p)

Next ==
    \/ Submit
    \/ \E size \in PageSizeOptions : SetPageSize(size)
    \/ \E q \in Queries : SetQuery(q)
    \/ \E l \in Langs : SetLang(l)
    \/ Navigate
    \/ \E t \in inflight : SearchAnswered(t)
    \/ \E t \in inflight : SearchFailedResponse(t)
    \/ \E t \in inflight : NavBackfillAnswered(t)
    \/ \E t \in inflight : NavFetchAnswered(t)
    \/ \E t \in inflight : NavFailed(t)
    \/ \E t \in inflight : RefillBackfillAnswered(t)
    \/ \E t \in inflight : RefillBackfillFailed(t)
    \/ \E t \in inflight : RefillAnswered(t)
    \/ \E t \in inflight : RefillFailed(t)

Spec == Init /\ [][Next]_vars

----------------------------------------------------------------------------
(* A gateway that breaks its contract: it answers a request that carries a *)
(* cursor as if none had been sent, so its first item does not follow the  *)
(* cursor.  The handlers run on the response as on any other.              *)

Misanswer(payload) == Gateway([payload EXCEPT !.cursor = NullCursor])

(* the violation is explored in sessions that are otherwise regular: no    *)
(* input edited since the reset, no response from before it                *)
Misanswerable(t) ==
    /\ t.payload.cursor # NullCursor
    /\ Len(Misanswer(t.payload)) > 0
    /\ t.session = session /\ ~dirty /\ ~stale

NavFetchMisanswered(t) ==
    /\ t.kind = "navFetch"
    /\ Misanswerable(t)
    /\ Answer(goToPageAnswered(Without(t), t.op, t.page, Misanswer(t.payload)))

RefillMisanswered(t) ==
    /\ t.kind = "refill"
    /\ Misanswerable(t)
    /\ Answer([prefetchApply(Without(t), t.page, Misanswer(t.payload))
                  EXCEPT !.windowOp = t.op])

NextFaulty ==
    \/ Next
    \/ \E t \in inflight : NavFetchMisanswered(t)
    \/ \E t \in inflight : RefillMisanswered(t)

(* two backends suffice here: a stream that ends inside the first window   *)
(* and the longest one                                                     *)
FaultyDocCounts == {n \in DocCounts : n = 18 \/ n >= MaxDocs - 1}

InitFaulty == Init /\ docsCount \in FaultyDocCounts

SpecFaulty == InitFaulty /\ [][NextFaulty]_vars

----------------------------------------------------------------------------
(* Runs with one more edit of the filter once the bound on edits is used   *)
(* up, so that a run can change the page size and later the filter.        *)

SetLangLate(l) ==
    /\ edits >= MaxEdits
    /\ lang = DefaultLang
    /\ l # lang
    /\ Click([St EXCEPT !.lang = l, !.dirty = TRUE])

NextEdited ==
    \/ Next
    \/ \E l \in Langs : SetLangLate(l)

(* a backend whose default stream ends exactly at a page boundary *)
EditedDocCounts == {n \in DocCounts : n = 26}

InitEdited == Init /\ docsCount \in EditedDocCounts

SpecEdited == InitEdited /\ [][NextEdited]_vars

----------------------------------------------------------------------------
(* Properties *)

(* the session has had one query, one filter and one page size since its   *)
(* reset, and has handled no response to a request older than that reset   *)
Clean == ~dirty /\ ~stale

(* the p-th pageSize-sized chunk of the session's ranked stream *)
Chunk(p) == Slice(Stream(query, lang), (p - 1) * pageSize, p * pageSize)

NavInFlight == \E t \in inflight : t.kind \in {"navBackfill", "navFetch"}

(* C1: on a static stream every cached page p holds exactly the p-th chunk *)
(* of the stream, whatever the order of searches, navigations, backfills   *)
(* and refills.                                                            *)
C1_CachedPageIsChunk ==
    Clean => \A p \in DOMAIN pageCache : pageCache[p] = Chunk(p)

(* C2: whenever the known last page is set, the displayed page is not      *)
(* beyond it.                                                              *)
C2_CurrentWithinKnownLast ==
    (Clean /\ noMoreAfterPage # NoPage) => currentPage <= noMoreAfterPage

(* C3: a page fetched by a navigation miss or sliced from a refill         *)
(* response with fewer than pageSize items makes the known last page that  *)
(* page's number.                                                          *)
C3_ShortPageSetsKnownLast ==
    [][\A t \in inflight :
         /\ (NavFetchAnswered(t) /\ Clean' /\ Len(Gateway(t.payload)) < pageSize)
               => noMoreAfterPage' = t.page
         /\ (RefillAnswered(t) /\ Clean')
               => \A i \in 0..(windowEnd' - t.page) :
                     Len(Slice(Gateway(t.payload), i * pageSize, (i + 1) * pageSize))
                         < pageSize
                     => noMoreAfterPage' = t.page + i]_vars

(* C4: between two resets the known last page, once set, is never cleared  *)
(* and never replaced by a larger page number.                             *)
C4_KnownLastWriteOnce ==
    [][(noMoreAfterPage # NoPage /\ session' = session /\ Clean')
         => (noMoreAfterPage' # NoPage /\ noMoreAfterPage' <= noMoreAfterPage)]_vars

(* C5: once a refill has succeeded, and while no navigation fetch is in    *)
(* flight, the displayed page lies inside the window.                      *)
C5_CurrentInWindow ==
    (Clean /\ refilled /\ ~NavInFlight)
        => (windowStart <= currentPage /\ currentPage <= windowEnd)

(* C6: the window starts at page 1 or later and spans at most five pages,  *)
(* in every state and so after every refill.                               *)
C6_WindowBounded ==
    windowStart >= 1 /\ windowEnd - windowStart + 1 <= 5

C6_Witness ==
    refilled /\ windowStart > 1 /\ windowEnd - windowStart + 1 = 5

(* C7: when a refill succeeds, every page number of the window it sets has *)
(* an entry in the page cache.                                             *)
C7_RefilledWindowDense ==
    [][\A t \in inflight :
         RefillAnswered(t) => \A p \in windowStart'..windowEnd' : p \in DOMAIN pageCache']_vars

(* C8: for pages p and p+1 cached in one session, every item of page p+1   *)
(* strictly follows the end-cursor stored for page p (score descending,    *)
(* doc_id ascending).                                                      *)
C8_CursorMonotonic ==
    Clean =>
        \A p \in DOMAIN pageCache :
            ((p + 1) \in DOMAIN pageCache /\ p \in DOMAIN pageEndCursor)
                => \A k \in 1..Len(pageCache[p + 1]) :
                      Follows(pageCache[p + 1][k], pageEndCursor[p])

C8_Witness ==
    /\ Clean
    /\ \E p \in DOMAIN pageCache :
          /\ p >= 5
          /\ (p + 1) \in DOMAIN pageCache
          /\ Len(pageCache[p + 1]) > 0
          /\ p \in DOMAIN pageEndCursor
          /\ pageEndCursor[p] # NullCursor

(* C9: no gateway request is issued while an edit of the query, the filter *)
(* or the page size has not been followed by a reset, and a reset empties  *)
(* the cache and the cursors, returns the page and the window to 1 and     *)
(* clears the known last page in one step.                                 *)
C9_ResetBeforeFetch ==
    [][/\ (inflight' \ inflight # {}) => ~dirty'
       /\ (session' # session) =>
             /\ pageCache' = <<>>
             /\ pageEndCursor' = <<>>
             /\ currentPage' = 1
             /\ windowStart' = 1
             /\ windowEnd' = 1
             /\ noMoreAfterPage' = NoPage]_vars

(* C10: handling the response to a request issued before the last reset,   *)
(* or under another page size than the present one, leaves the cache, the  *)
(* cursors, the window and the known last page as they are.                *)
C10_NoStaleWrite ==
    [][\A t \in inflight :
         (t \notin inflight' /\ (t.session # session \/ t.reqPageSize # pageSize))
            => UNCHANGED <<pageCache, pageEndCursor, windowStart, windowEnd,
                           noMoreAfterPage>>]_vars

----------------------------------------------------------------------------
(* Failure semantics *)

(* the pagination fields a failure must leave alone *)
Shown(S) == <<S.currentPage, S.results, S.windowStart, S.windowEnd, S.noMoreAfterPage>>

(* every page cached before the step is cached with the same items after it *)
CachedPagesKept ==
    \A p \in DOMAIN pageCache : p \in DOMAIN pageCache' /\ pageCache'[p] = pageCache[p]

(* C11: a refill whose gateway call fails, in its backfill or in its bulk   *)
(* fetch, leaves the displayed page, the results, the window, the known    *)
(* last page and every cached page as they were when it started: neither   *)
(* its start, nor its answered backfill, nor the failure changes them.     *)
C11_RefillFailureKeepsState ==
    [][/\ LET S == prefetchWindow(St, nOps + 1, currentPage)
           IN  Shown(S) = Shown(St) /\ S.pageCache = pageCache
        /\ \A t \in inflight :
             (RefillBackfillAnswered(t) \/ RefillBackfillFailed(t) \/ RefillFailed(t))
                => /\ UNCHANGED <<currentPage, results, windowStart, windowEnd,
                                  noMoreAfterPage>>
                   /\ CachedPagesKept]_vars

(* a refill failed while the cached page 2 was displayed (Scenario D) *)
C11_Witness ==
    /\ nOps = 2 /\ edits = 0
    /\ currentPage = 2
    /\ error # ""
    /\ ~prefetching
    /\ {1, 2} \subseteq DOMAIN pageCache
    /\ results = pageCache[2]

(* C12: every failed refill, failing in the backfill of its entry cursor   *)
(* or in its bulk fetch, leaves a non-empty error and the prefetching      *)
(* indicator false.                                                        *)
C12_RefillFailureReported ==
    [][\A t \in inflight :
         (RefillBackfillFailed(t) \/ RefillFailed(t))
            => (error' # "" /\ ~prefetching')]_vars

(* C13: when the gateway fails a foreground fetch (the page-1 fetch of     *)
(* doSearch, or the backfill or the page fetch of a navigation miss), an   *)
(* error is shown, and the displayed page, the results, the cache, the     *)
(* end-cursors, the window and the known last page are what they were when *)
(* the operation began: the handler had not changed them before the        *)
(* failure, and does not change them on it.                                *)
C13_ForegroundFailureRestores ==
    [][\A t \in inflight :
         (SearchFailedResponse(t) \/ NavFailed(t))
            => /\ error' # ""
               /\ t.intact
               /\ UNCHANGED <<currentPage, results, pageCache, pageEndCursor,
                              windowStart, windowEnd, noMoreAfterPage>>]_vars

(* C14: when the gateway answers a fetch sent with a cursor with an item   *)
(* that does not strictly follow that cursor, the fetch counts as failed:  *)
(* an error is set and nothing is written to the page cache or to the      *)
(* end-cursor map.                                                         *)
C14_ProtocolViolationRejected ==
    [][\A t \in inflight :
         (NavFetchMisanswered(t) \/ RefillMisanswered(t))
            => /\ ~Follows(Misanswer(t.payload)[1], t.payload.cursor)
               /\ error' # ""
               /\ UNCHANGED <<pageCache, pageEndCursor>>]_vars

----------------------------------------------------------------------------
(* Scenarios *)

StreamLen == Len(Stream(query, lang))

(* more than one page, fewer than five *)
ShortStream == pageSize < StreamLen /\ StreamLen < 5 * pageSize

LastPage == Ceil(StreamLen, pageSize)

(* C15: on a static stream of N items, pageSize < N < 5*pageSize: the      *)
(* page-1 fetch of doSearch caches a full page 1 and leaves the known last *)
(* page unset; the refill that starts at page 1 sets the window to         *)
(* [1, ceil(N/pageSize)] and the known last page to ceil(N/pageSize); from *)
(* then on goToPage(ceil(N/pageSize) + 1) is rejected.                     *)
C15_ShortStreamScenario ==
    [][/\ (Clean /\ refilled /\ ShortStream)
             => goToPage(St, nOps + 1, LastPage + 1) = St
       /\ \A t \in inflight :
            /\ (t \notin inflight' /\ Clean' /\ SearchAnswered(t) /\ ShortStream')
                  => /\ Len(pageCache'[1]) = pageSize'
                     /\ noMoreAfterPage' = NoPage
            /\ (t \notin inflight' /\ Clean' /\ t.page = 1 /\ RefillAnswered(t) /\ ShortStream')
                  => /\ windowStart' = 1
                     /\ windowEnd' = LastPage'
                     /\ noMoreAfterPage' = LastPage'
                     /\ goToPage(St', nOps + 1, LastPage' + 1) = St']_vars

(* Scenario A as the spec gives it: 12 items, page size 10 *)
C15_Witness ==
    /\ Clean /\ refilled
    /\ pageSize = 10 /\ StreamLen = 12
    /\ Len(pageCache[1]) = 10
    /\ windowStart = 1 /\ windowEnd = 2
    /\ noMoreAfterPage = 2

(* the gateway requests a step issues *)
Issued == inflight' \ inflight

(* C16: a navigation to an uncached page p > 1 whose predecessor has no     *)
(* cached end-cursor issues exactly two requests in order: a backfill of   *)
(* (p-1)*pageSize items with a null cursor, from which pages 1..p-1 and    *)
(* their end-cursors are derived, then a fetch of pageSize items with the  *)
(* end-cursor of page p-1; page p is cached and displayed only when the    *)
(* second response arrives.                                                *)
C16_BackfillThenFetch ==
    [][/\ \A p \in NavTargets :
            (/\ p > 1 /\ ~HasPage(St, p) /\ ~HasCursor(St, p - 1)
             /\ GoToPage(p) /\ Issued # {} /\ Clean')
               => /\ \E u \in Issued :
                        /\ Issued = {u}
                        /\ u.payload.size = (p - 1) * pageSize
                        /\ u.payload.cursor = NullCursor
                  /\ UNCHANGED <<currentPage, pageCache>>
       /\ \A t \in inflight :
            /\ (t \notin inflight' /\ Clean' /\ NavBackfillAnswered(t))
                  => /\ \A q \in 1..(t.page - 1) :
                           /\ q \in DOMAIN pageCache'
                           /\ q \in DOMAIN pageEndCursor'
                     /\ \E u \in Issued :
                           /\ Issued = {u}
                           /\ u.payload.size = pageSize
                           /\ (t.page - 1) \in DOMAIN pageEndCursor'
                           /\ u.payload.cursor = pageEndCursor'[t.page - 1]
                           /\ u.payload.cursor # NullCursor
                     /\ currentPage' = currentPage
                     /\ (t.page \in DOMAIN pageCache' <=> t.page \in DOMAIN pageCache)
            /\ (t \notin inflight' /\ Clean' /\ NavFetchAnswered(t))
                  => /\ t.page \in DOMAIN pageCache'
                     /\ currentPage' = t.page]_vars

----------------------------------------------------------------------------
(* The cache writes *)

(* C17: writing the same page content to a page number a second time, as   *)
(* a refill and a navigation miss write it, leaves the cached page and its *)
(* end-cursor as the first write left them: for every response that can    *)
(* arrive, running its writes again on the state they produced changes     *)
(* neither map.                                                            *)
C17_PutIdempotent ==
    \A t \in inflight :
        LET items == Gateway(t.payload)
        IN  /\ t.kind = "refill"
                 => LET once == prefetchApply(Without(t), t.page, items)
                        twice == prefetchApply(once, t.page, items)
                    IN  /\ twice.pageCache = once.pageCache
                        /\ twice.pageEndCursor = once.pageEndCursor
            /\ t.kind = "navFetch"
                 => LET once == goToPageAnswered(Without(t), t.op, t.page, items)
                        twice == goToPageAnswered(once, t.op, t.page, items)
                    IN  /\ twice.pageCache = once.pageCache
                        /\ twice.pageEndCursor = once.pageEndCursor

(* page 6 has been written twice with the same items: by the navigation    *)
(* or the refill that first cached it, then by the refill centred on it    *)
C17_Witness ==
    /\ Clean /\ refilled
    /\ windowStart = 4
    /\ 6 \in DOMAIN pageCache
    /\ Len(pageCache[6]) > 0
    /\ pageCache[6] = Chunk(6)
    /\ pageEndCursor[6] = getEndCursorFromResults(pageCache[6])

----------------------------------------------------------------------------
(* Navigation *)

(* the page numbers goToPage is tried on: from below 1 to beyond any page  *)
(* the bounded runs reach                                                  *)
PageArguments == (0 - 1)..(MaxOps + WindowPages)

(* C18: goToPage(p) with p < 1, or with the known last page set and p      *)
(* beyond it, changes nothing: not the displayed page, the results, the    *)
(* cache, the cursors, the window, the known last page, error or loading,  *)
(* and it issues no request and starts no refill.                          *)
C18_RejectedNavigationNoOp ==
    \A p \in PageArguments :
        (p < 1 \/ (noMoreAfterPage # NoPage /\ p > noMoreAfterPage))
            => goToPage(St, nOps + 1, p) = St

(* the pager offers a page beyond the known last page, with fetches pending *)
C18_Witness ==
    /\ noMoreAfterPage # NoPage
    /\ inflight # {}
    /\ \E p \in NavTargets : p > noMoreAfterPage

(* C19: a navigation to a cached page displays it in the step of the click *)
(* itself, without waiting for any gateway call and whatever fetches are   *)
(* in flight; in that step the refill it triggers is only issued, and has  *)
(* written nothing to the cache, the window or the known last page.        *)
C19_CachedNavigationImmediate ==
    [][\A p \in NavTargets :
         (/\ nOps' = nOps + 1
          /\ HasPage(St, p)
          /\ ~(noMoreAfterPage # NoPage /\ p > noMoreAfterPage)
          /\ GoToPage(p))
            => /\ currentPage' = p
               /\ results' = pageCache[p]
               /\ UNCHANGED <<pageCache, pageEndCursor, windowStart, windowEnd,
                              noMoreAfterPage, loading>>
               /\ inflight \subseteq inflight'
               /\ \E u \in Issued :
                     /\ Issued = {u}
                     /\ u.op = nOps'
                     /\ u.kind \in {"refill", "refillBackfill"}]_vars

(* page 3 was displayed from the cache while the refill of the previous    *)
(* navigation was still in flight; its own refill is now in flight too     *)
C19_Witness ==
    /\ nOps = 3 /\ edits = 0
    /\ currentPage = 3
    /\ 3 \in DOMAIN pageCache
    /\ results = pageCache[3]
    /\ ~loading
    /\ \E u \in inflight : u.op = 2 /\ u.kind = "refill"
    /\ \E u \in inflight : u.op = 3 /\ u.kind = "refill"

----------------------------------------------------------------------------
(* Concurrent refills *)

(* C20: when the refills of two successive navigations are in flight       *)
(* together, the window and the known last page are in the end those of    *)
(* the later navigation's refill, whichever response arrives first: the    *)
(* refill of the earlier navigation, answered after the later one's, does  *)
(* not change them.                                                        *)
C20_LaterRefillWins ==
    [][\A t \in inflight :
         (t \notin inflight' /\ Clean' /\ t.op < windowOp /\ RefillAnswered(t))
            => UNCHANGED <<windowStart, windowEnd, noMoreAfterPage>>]_vars

(* the i-th page (from 0) that the present page size slices from a response *)
SliceOf(items, i) == Slice(items, i * pageSize, (i + 1) * pageSize)

(* C21: the pages sliced from one refill response, the window and the      *)
(* known last page are written in one step: the step that takes the        *)
(* response writes every page it slices, with the window and the known     *)
(* last page, and leaves nothing of that response to a later step, so no   *)
(* navigation, refill or backfill runs on a partly written batch.          *)
C21_RefillBatchAtomic ==
    [][\A t \in inflight :
         (t \notin inflight' /\ RefillAnswered(t))
            => LET items == Gateway(t.payload)
                   shown == maxPagesToShowOf(Ceil(Len(items), pageSize))
               IN  /\ \A i \in 0..(shown - 1) :
                         Len(SliceOf(items, i)) > 0
                            => /\ (t.page + i) \in DOMAIN pageCache'
                               /\ pageCache'[t.page + i] = SliceOf(items, i)
                   /\ windowStart' = t.page
                   /\ windowEnd' = t.page + shown - 1
                   /\ (shown < WindowPages \/ Len(SliceOf(items, shown - 1)) < pageSize)
                         => noMoreAfterPage' = windowEnd'
                   /\ Issued = {}
                   /\ \A u \in inflight' : u.op # t.op]_vars

(* a batch of five pages has been written while other requests were pending *)
C21_Witness ==
    /\ refilled
    /\ windowOp # 0
    /\ windowEnd = windowStart + 4
    /\ \A p \in windowStart..windowEnd : p \in DOMAIN pageCache /\ Len(pageCache[p]) > 0
    /\ \E u \in inflight : u.kind \in {"refill", "refillBackfill", "navFetch", "navBackfill"}

(* the number of non-empty pages sliced from a response, five at most *)
ProducedPages(items) ==
    Cardinality({i \in 0..(WindowPages - 1) : Len(SliceOf(items, i)) > 0})

(* C22: a refill centred on a page issues one bulk fetch of 5*pageSize     *)
(* items for the window starting at max(1, centre - 2), and when it        *)
(* succeeds sets windowStart to that page and windowEnd to                 *)
(* windowStart + (produced - 1), produced being the number (0 to 5) of     *)
(* non-empty pages sliced from the response.                               *)
C22_WindowFormula ==
    [][/\ \A u \in Issued :
            (u.kind = "refill" /\ Clean')
               => /\ u.payload.size = 5 * pageSize'
                  /\ \A v \in Issued : v = u
                  /\ \/ u.page = Max(1, currentPage' - 2)
                     \/ \E t \in inflight : t.kind = "refillBackfill" /\ t.op = u.op
                                            /\ t.page = u.page
       /\ \A u \in Issued :
            (u.kind = "refillBackfill" /\ Clean') => u.page = Max(1, currentPage' - 2)
       /\ \A t \in inflight :
            (t \notin inflight' /\ Clean' /\ RefillAnswered(t))
               => /\ windowStart' = t.page
                  /\ windowEnd' = windowStart' + (ProducedPages(Gateway(t.payload)) - 1)]_vars

(* C23: canGoNext is true exactly when the known last page is set and the *)
(* displayed page is before it, or it is unset and either the next page is *)
(* cached or the window spans exactly five pages.                          *)
C23_CanGoNext ==
    canGoNext <=>
        \/ noMoreAfterPage # NoPage /\ currentPage < noMoreAfterPage
        \/ /\ noMoreAfterPage = NoPage
           /\ \/ HasPage(St, currentPage + 1)
              \/ windowEnd - windowStart + 1 = 5

(* Next is offered on the strength of the full window alone *)
C23_Witness ==
    /\ meta
    /\ canGoNext
    /\ noMoreAfterPage = NoPage
    /\ ~HasPage(St, currentPage + 1)
    /\ windowEnd - windowStart + 1 = 5

(* C24: in every reachable state the end-cursor map has an entry for a     *)
(* page exactly when the page cache has one, and the entry is the cursor   *)
(* derived from the cached page: null for an empty page, otherwise the     *)
(* score and doc_id of its last item.                                      *)
C24_CursorMapConsistent ==
    /\ DOMAIN pageEndCursor = DOMAIN pageCache
    /\ \A p \in DOMAIN pageCache :
          pageEndCursor[p] = getEndCursorFromResults(pageCache[p])

====
